---- MODULE Spec2Model ----
(***************************************************************************)
(* Model of the WebSocket connection manager of pentrypal                  *)
(* (backend/app/core/websocket.py) and of the session endpoint that drives *)
(* it (backend/app/api/v1/endpoints/websocket.py).                         *)
(*                                                                         *)
(* Every coroutine call is a frame on the stack of its asyncio task.  A    *)
(* task runs without interruption from one real suspension point to the   *)
(* next; the suspension points are websocket.accept, websocket.send_text   *)
(* and websocket.receive_text.  `running` names the task that holds the    *)
(* event loop; it is None while every task is suspended.                   *)
(***************************************************************************)
EXTENDS Integers, Sequences, FiniteSets, TLC

\* ---- bounds -------------------------------------------------------------
MaxOps == 2        \* inbound frames, transport closes and bridge calls in a run
MaxFail == 1       \* send failures on connections whose peer is still there
MaxInFlight == 2   \* tasks that are inside a call at the same time

Users == {"A", "B"}
Conns == {"a1", "a2", "b1"}
ListIds == {"1", "2"}

\* room_id = f"list_{list_id}" as the message handler builds it, as
\* send_list_update builds it and as send_item_update builds it
handler_room_id(list_id) == "list_" \o list_id
list_update_room_id(list_id) == "list_" \o list_id
\* a bridge that takes the list id itself for the room id
item_update_room_id_Bare(list_id) == list_id

item_update_room_id(list_id) == "list_" \o list_id

\* the rooms the clients can name
Rooms == {handler_room_id(L) : L \in ListIds}
Bridges == {"h1"}
Tasks == Conns \cup Bridges
None == "none"

\* the identity the auth service resolves a connection's token to
UserOf(c) == IF c = "b1" THEN "B" ELSE "A"

VARIABLES
  active_connections,  \* dict user_id -> list of websockets
  conn_order,          \* insertion order of the keys of active_connections
  room_subscriptions,  \* dict room_id -> set of user_ids
  user_rooms,          \* dict user_id -> set of room_ids
  stack,               \* per task: the coroutine frames, innermost last
  running,             \* the task holding the event loop, or None
  session,             \* per connection: state of websocket_endpoint
  close_code,          \* per connection: code of the server's websocket.close, 0 if none
  result,              \* per bridge task: idle / running / returned / caught / raised
  ops,                 \* inputs consumed so far
  fails,               \* send failures injected so far
  history              \* the joins of the run and the user_joined_room events
                       \* its sends delivered

vars == <<active_connections, conn_order, room_subscriptions, user_rooms,
          stack, running, session, close_code, result, ops, fails, history>>

registry == <<active_connections, conn_order>>
directory == <<room_subscriptions, user_rooms>>

\* ---- dictionaries -------------------------------------------------------
EmptyDict == [k \in {} |-> {}]
DictDel(d, k) == [x \in (DOMAIN d) \ {k} |-> d[x]]
DictSet(d, k, v) == [x \in (DOMAIN d) \cup {k} |-> IF x = k THEN v ELSE d[x]]

\* list.remove / "x in list" / sequences without an element
SeqSet(s) == {s[k] : k \in 1..Len(s)}
SeqRemove(s, x) == SelectSeq(s, LAMBDA y : y # x)

\* ---- messages -----------------------------------------------------------
Msg(type, room, user) == [type |-> type, room |-> room, user |-> user]

\* ---- frames -------------------------------------------------------------
\* One record shape for every coroutine:
\*   fn, pc          the coroutine and its position
\*   user, room, ws  its user_id / room_id / websocket arguments
\*   msg, excl       its message and exclude_user arguments
\*   cur             the user_id of the outer fanout loop
\*   i, det          list iterator: next index, and whether the list object
\*                   it walks is no longer the one stored in the dict
\*   failed          disconnected_connections
\*   snap, visited   set / dict iterator: the keys present when it was
\*                   created and the keys it has yielded; of a
\*                   send_personal_message call, snap is the websockets of
\*                   the user's list when its loop began
\*   sdet            the set object it walks was deleted from the dict
\*   rooms           disconnect: rooms of the copy not yet left
\*   sent, bad       history of this call: the connections its sends reached
\*                   and the connections its sends failed on
\*   removed         history of a disconnect call: "one" when it removed the
\*                   websocket and others stayed, "last" when it removed the
\*                   user's last one, "none" otherwise; of a leave_room call:
\*                   "one" when it removed the user from the room, "none"
\*                   when the user was no member
Frame(fn, pc, user, room, ws, msg, excl) ==
  [fn |-> fn, pc |-> pc, user |-> user, room |-> room, ws |-> ws, msg |-> msg,
   excl |-> excl, cur |-> None, i |-> 1, det |-> FALSE, failed |-> <<>>,
   snap |-> {}, visited |-> {}, sdet |-> FALSE, rooms |-> {},
   sent |-> {}, bad |-> {}, removed |-> "none"]

NoMsg == Msg(None, None, None)

\* the websockets of every connection list of the registry
Registered == UNION {SeqSet(active_connections[u]) : u \in DOMAIN active_connections}

Top(t) == stack[t][Len(stack[t])]
Below(t) == SubSeq(stack[t], 1, Len(stack[t]) - 1)
At(t, fn, pc) == /\ running = t
                 /\ stack[t] # <<>>
                 /\ Top(t).fn = fn
                 /\ Top(t).pc = pc

\* The manager is constructed empty (lines 18-32).  The runs start from the
\* quiescent states the first two sessions leave behind once they have
\* connected and joined their rooms: a1 and b1 are registered, a2 has not
\* connected yet, and the two indexes hold the same memberships.
Registered0 == {"a1", "b1"}

Init ==
  /\ active_connections = [u \in Users |-> IF u = "B" THEN <<"b1">> ELSE <<"a1">>]
  /\ session = [c \in Conns |-> IF c \in Registered0 THEN "Active" ELSE "Connecting"]
  /\ conn_order = <<"A", "B">>
  /\ \E members \in [Rooms -> SUBSET Users] :
       /\ members["list_1"] = Users
       /\ room_subscriptions =
            [r \in {x \in Rooms : members[x] # {}} |-> members[r]]
       /\ user_rooms =
            [u \in {x \in Users : \E r \in Rooms : x \in members[r]} |->
               {r \in Rooms : u \in members[r]}]
  /\ stack = [t \in Tasks |-> <<>>]
  /\ running = None
  /\ close_code = [c \in Conns |-> 0]
  /\ result = [b \in Bridges |-> "idle"]
  /\ ops = 0
  /\ fails = 0
  /\ history = [joined |-> {}, heard |-> {}]

\* ---- control ------------------------------------------------------------
SetTop(t, f) == [stack EXCEPT ![t] = Append(Below(t), f)]
Push(t, f, g) == [stack EXCEPT ![t] = Below(t) \o <<f, g>>]
Pop(t) == [stack EXCEPT ![t] = Below(t)]

\* websocket_endpoint after the call it awaits has returned: connect returns
\* into the receive loop, a handler returns to the next receive_text, the
\* disconnect of the WebSocketDisconnect handler ends the session.
AfterReturn(st) == IF st = "Closing" THEN "Closed" ELSE "Active"

\* a boundary that lets the exception of every bridge call through
Caught_Never(f) == FALSE

\* The bridge calls that business logic makes through a _notify_* method of
\* its service: the method's "except Exception" catches what the call
\* raises.  The admin broadcast is awaited by its HTTP endpoint directly.
Caught(f) == f.msg.type \in {"item_update", "notification"}

\* The outermost call of task t ends, normally or with an exception nobody
\* in the task's frames catches.  A session that ends with an exception is
\* closed with WS_1011_INTERNAL_ERROR, without a call of disconnect.
Finish(t, outcome) ==
  /\ running' = None
  /\ IF t \in Bridges
       THEN /\ result' = [result EXCEPT ![t] =
                            IF outcome = "raised" /\ Caught(stack[t][1])
                              THEN "caught" ELSE outcome]
            /\ UNCHANGED <<session, close_code>>
       ELSE /\ session' = [session EXCEPT ![t] =
                             IF outcome = "raised" THEN "Closed" ELSE AfterReturn(@)]
            /\ close_code' = [close_code EXCEPT ![t] =
                                IF outcome = "raised" THEN 1011 ELSE @]
            /\ UNCHANGED result

Return(t) ==
  /\ stack' = Pop(t)
  /\ IF Len(stack[t]) = 1
       THEN Finish(t, "returned")
       ELSE UNCHANGED <<running, session, close_code, result>>

\* RuntimeError / KeyError: no frame of the manager catches it
Raise(t) ==
  /\ stack' = [stack EXCEPT ![t] = <<>>]
  /\ Finish(t, "raised")

Continue == UNCHANGED <<running, session, close_code, result>>

\* ---- iterators over the shared containers -------------------------------
FanoutFns == {"send_personal_message", "broadcast_to_room", "broadcast_to_all"}

\* the list a frame's "for websocket in ..." walks: the list object it took
\* from the dict, which is empty from the moment the dict entry is deleted
IterList(f) ==
  IF f.det \/ f.cur \notin DOMAIN active_connections
    THEN <<>> ELSE active_connections[f.cur]

\* the set a broadcast_to_room frame's "for user_id in ..." walks
IterSet(f) ==
  IF f.sdet \/ f.room \notin DOMAIN room_subscriptions
    THEN {} ELSE room_subscriptions[f.room]

\* "Set changed size during iteration": the set iterator's check at each step
SetChanged(f) == Cardinality(IterSet(f)) # Cardinality(f.snap)

\* "dictionary changed size during iteration": the dict iterator's check
DictChanged(f) == Cardinality(DOMAIN active_connections) # Cardinality(f.snap)

\* del self.user_rooms[user_id] when the key is gone: KeyError
KeyGone(f) == f.rooms = {} /\ f.user \notin DOMAIN user_rooms

\* del self.active_connections[u]: the list object leaves the dict, and the
\* dict iterators of broadcast_to_all will meet a re-inserted key again
OnDelUser(f, u) ==
  LET g == IF f.fn \in FanoutFns /\ f.cur = u /\ f.pc \in {"inner", "send", "cleanup"}
             THEN [f EXCEPT !.det = TRUE] ELSE f
  IN IF g.fn = "broadcast_to_all" THEN [g EXCEPT !.visited = @ \ {u}] ELSE g

\* del self.room_subscriptions[r]: the set object leaves the dict
OnDelRoom(f, r) ==
  IF f.fn = "broadcast_to_room" /\ f.room = r /\ f.pc # "start"
    THEN [f EXCEPT !.sdet = TRUE] ELSE f

\* the effect of del self.active_connections[u] on every live iterator
DelUserFrames(st, u) ==
  [t \in Tasks |-> [k \in 1..Len(st[t]) |-> OnDelUser(st[t][k], u)]]

\* the effect of del self.room_subscriptions[r] on every live iterator
DelRoomFrames(st, r) ==
  [t \in Tasks |-> [k \in 1..Len(st[t]) |-> OnDelRoom(st[t][k], r)]]

\* ---- send_personal_message ----------------------------------------------
SPM_Start(t) ==
  /\ At(t, "send_personal_message", "start")
  /\ IF Top(t).user \in DOMAIN active_connections
       THEN /\ stack' = SetTop(t, [Top(t) EXCEPT !.pc = "inner", !.cur = Top(t).user,
                                                 !.i = 1, !.det = FALSE, !.failed = <<>>,
                                                 !.snap = SeqSet(active_connections[Top(t).user])])
            /\ Continue
       ELSE Return(t)
  /\ UNCHANGED <<registry, directory, ops, fails, history>>

\* for websocket in <list>: the next element, by index, of the live list;
\* after the last one, the loop over disconnected_connections begins, which
\* is over at once when no send has failed
Fanout_Inner(t) ==
  /\ running = t
  /\ stack[t] # <<>>
  /\ Top(t).fn \in FanoutFns
  /\ Top(t).pc = "inner"
  /\ IF Top(t).i <= Len(IterList(Top(t)))
       THEN /\ stack' = SetTop(t, [Top(t) EXCEPT !.pc = "send",
                                                 !.ws = IterList(Top(t))[Top(t).i],
                                                 !.i = @ + 1])
            /\ running' = None
            /\ UNCHANGED <<session, close_code, result>>
       ELSE IF Top(t).failed # <<>>
              THEN /\ stack' = SetTop(t, [Top(t) EXCEPT !.pc = "cleanup"])
                   /\ Continue
              ELSE IF Top(t).fn = "send_personal_message"
                     THEN Return(t)
                     ELSE /\ stack' = SetTop(t, [Top(t) EXCEPT !.pc = "outer"])
                          /\ Continue
  /\ UNCHANGED <<registry, directory, ops, fails, history>>

Suspended(t, pc) ==
  /\ running = None
  /\ stack[t] # <<>>
  /\ Top(t).pc = pc

\* await websocket.send_text(message_str) returns
Deliver(t) ==
  /\ Suspended(t, "send")
  /\ session[Top(t).ws] # "Closed"
  /\ stack' = SetTop(t, [Top(t) EXCEPT !.pc = "inner", !.sent = @ \cup {Top(t).ws}])
  /\ running' = t
  /\ history' = IF Top(t).msg.type = "user_joined_room"
                  THEN [history EXCEPT !.heard =
                          @ \cup {<<Top(t).ws, Top(t).msg.room, Top(t).msg.user>>}]
                  ELSE history
  /\ UNCHANGED <<registry, directory, session, close_code, result, ops, fails>>

\* await websocket.send_text(message_str) raises; the except clause notes
\* the websocket in disconnected_connections
SendFail(t) ==
  /\ Suspended(t, "send")
  /\ session[Top(t).ws] = "Closed" \/ fails < MaxFail
  /\ fails' = IF session[Top(t).ws] = "Closed" THEN fails ELSE fails + 1
  /\ stack' = SetTop(t, [Top(t) EXCEPT !.pc = "inner", !.bad = @ \cup {Top(t).ws},
                                       !.failed = Append(@, Top(t).ws)])
  /\ running' = t
  /\ UNCHANGED <<registry, directory, session, close_code, result, ops, history>>

\* a cleanup loop that never moves on from its first websocket
Fanout_Cleanup_Stuck(t) ==
  /\ running = t
  /\ stack[t] # <<>>
  /\ Top(t).fn \in FanoutFns
  /\ Top(t).pc = "cleanup"
  /\ IF Top(t).failed # <<>>
       THEN /\ stack' = Push(t, Top(t),
                             Frame("disconnect", "start", Top(t).cur, None,
                                   Head(Top(t).failed), NoMsg, None))
            /\ Continue
       ELSE IF Top(t).fn = "send_personal_message"
              THEN Return(t)
              ELSE /\ stack' = SetTop(t, [Top(t) EXCEPT !.pc = "outer"])
                   /\ Continue
  /\ UNCHANGED <<registry, directory, ops, fails, history>>

\* for websocket in disconnected_connections: await self.disconnect(...)
Fanout_Cleanup(t) ==
  /\ running = t
  /\ stack[t] # <<>>
  /\ Top(t).fn \in FanoutFns
  /\ Top(t).pc = "cleanup"
  /\ IF Top(t).failed # <<>>
       THEN /\ stack' = Push(t, [Top(t) EXCEPT !.failed = Tail(@)],
                             Frame("disconnect", "start", Top(t).cur, None,
                                   Head(Top(t).failed), NoMsg, None))
            /\ Continue
       ELSE IF Top(t).fn = "send_personal_message"
              THEN Return(t)
              ELSE /\ stack' = SetTop(t, [Top(t) EXCEPT !.pc = "outer"])
                   /\ Continue
  /\ UNCHANGED <<registry, directory, ops, fails, history>>

\* ---- broadcast_to_room --------------------------------------------------
\* a broadcast that indexes the room without looking for its key first
BTR_Start_KeyError(t) ==
  /\ At(t, "broadcast_to_room", "start")
  /\ IF Top(t).room \in DOMAIN room_subscriptions
       THEN /\ stack' = SetTop(t, [Top(t) EXCEPT !.pc = "outer",
                                     !.snap = room_subscriptions[Top(t).room],
                                     !.visited = {}, !.sdet = FALSE])
            /\ Continue
       ELSE Raise(t)
  /\ UNCHANGED <<registry, directory, ops, fails, history>>

\* lines 154-158: a room without a key is passed over
BTR_Start(t) ==
  /\ At(t, "broadcast_to_room", "start")
  /\ IF Top(t).room \in DOMAIN room_subscriptions
       THEN /\ stack' = SetTop(t, [Top(t) EXCEPT !.pc = "outer",
                                     !.snap = room_subscriptions[Top(t).room],
                                     !.visited = {}, !.sdet = FALSE])
            /\ Continue
       ELSE Return(t)
  /\ UNCHANGED <<registry, directory, ops, fails, history>>

\* a loop body that passes every member by
BTR_Visit_Skip(f, u) == [f EXCEPT !.visited = @ \cup {u}]

\* the body of the outer loop up to the inner loop, for the user the set
\* iterator yields
BTR_Visit(f, u) ==
  LET g == [f EXCEPT !.visited = @ \cup {u}]
  IN IF f.excl # None /\ u = f.excl
       THEN g
       ELSE IF u \in DOMAIN active_connections
              THEN [g EXCEPT !.pc = "inner", !.cur = u, !.i = 1, !.det = FALSE,
                             !.failed = <<>>]
              ELSE g

\* for user_id in self.room_subscriptions[room_id]: the set iterator raises
\* RuntimeError when the set's size is not the size it had when the loop
\* began; it yields the members in hash order, and a member added since the
\* loop began may fall before or after its position
BTR_Outer(t) ==
  /\ At(t, "broadcast_to_room", "outer")
  /\ LET f == Top(t)
         cand == IterSet(f) \ f.visited
     IN IF SetChanged(f)
          THEN Raise(t)
          ELSE \/ \E u \in cand :
                    /\ stack' = SetTop(t, BTR_Visit(f, u))
                    /\ Continue
               \/ /\ cand \cap f.snap = {}
                  /\ Return(t)
  /\ UNCHANGED <<registry, directory, ops, fails, history>>

\* ---- broadcast_to_all ---------------------------------------------------
BTA_Start(t) ==
  /\ At(t, "broadcast_to_all", "start")
  /\ stack' = SetTop(t, [Top(t) EXCEPT !.pc = "outer",
                           !.snap = DOMAIN active_connections, !.visited = {}])
  /\ Continue
  /\ UNCHANGED <<registry, directory, ops, fails, history>>

\* the keys the dict iterator has still to yield, in insertion order
Unvisited(f) == SelectSeq(conn_order, LAMBDA u : u \notin f.visited)

\* for user_id, connections in self.active_connections.items(): the dict
\* iterator raises RuntimeError when the dict's size is not the size it had
\* when the loop began
BTA_Outer(t) ==
  /\ At(t, "broadcast_to_all", "outer")
  /\ LET f == Top(t)
     IN IF DictChanged(f)
          THEN Raise(t)
          ELSE IF Unvisited(f) = <<>>
                 THEN Return(t)
                 ELSE /\ stack' = SetTop(t, [f EXCEPT !.pc = "inner",
                                               !.cur = Head(Unvisited(f)),
                                               !.visited = @ \cup {Head(Unvisited(f))},
                                               !.i = 1, !.det = FALSE, !.failed = <<>>])
                      /\ Continue
  /\ UNCHANGED <<registry, directory, ops, fails, history>>

\* ---- disconnect ---------------------------------------------------------
\* lines 65-71: the registry without the websocket, and without the user's
\* key when no websocket of the user is left
\* a deregistration that keeps the user's key over an empty list
Deregister_KeepKey(u, ws) ==
  IF u \notin DOMAIN active_connections
    THEN active_connections
    ELSE DictSet(active_connections, u, SeqRemove(active_connections[u], ws))

\* a deregistration escalated to the user: the key goes with all its
\* connections
Deregister_User(u, ws) == DictDel(active_connections, u)

\* a deregistration that drops the user's newest connection when the
\* websocket is not in the list
Deregister_Pop(u, ws) ==
  IF u \notin DOMAIN active_connections
    THEN active_connections
    ELSE IF ws \in SeqSet(active_connections[u])
           THEN DictSet(active_connections, u, SeqRemove(active_connections[u], ws))
           ELSE DictSet(active_connections, u,
                        SubSeq(active_connections[u], 1, Len(active_connections[u]) - 1))

\* lines 65-71: remove the connection, delete the key of an empty list
Deregister(u, ws) ==
  IF u \notin DOMAIN active_connections
    THEN active_connections
    ELSE IF SeqRemove(active_connections[u], ws) = <<>>
           THEN DictDel(active_connections, u)
           ELSE DictSet(active_connections, u, SeqRemove(active_connections[u], ws))

\* what the call did to the registry
Removed(u, ws) ==
  IF u \in DOMAIN active_connections /\ u \notin DOMAIN Deregister(u, ws) THEN "last"
  ELSE IF Deregister(u, ws) # active_connections THEN "one"
  ELSE "none"

\* lines 65-75: everything up to the first await of the cascade
Disconnect_Start(t) ==
  /\ At(t, "disconnect", "start")
  /\ LET f == [Top(t) EXCEPT !.removed = Removed(Top(t).user, Top(t).ws)]
         u == f.user
     IN /\ active_connections' = Deregister(u, f.ws)
        /\ IF u \in DOMAIN active_connections /\ u \notin DOMAIN Deregister(u, f.ws)
             THEN /\ conn_order' = SeqRemove(conn_order, u)
                  /\ stack' = DelUserFrames(
                       SetTop(t, IF u \in DOMAIN user_rooms
                                   THEN [f EXCEPT !.pc = "cascade", !.rooms = user_rooms[u],
                                                  !.snap = user_rooms[u]]
                                   ELSE [f EXCEPT !.pc = "ret"]),
                       u)
             ELSE /\ UNCHANGED conn_order
                  /\ stack' = SetTop(t, [f EXCEPT !.pc = "ret"])
  /\ Continue
  /\ UNCHANGED <<directory, ops, fails, history>>

\* lines 75-77: for room_id in <copy>: await self.leave_room(...), then
\* del self.user_rooms[user_id], a KeyError when the key is gone
Disconnect_Cascade(t) ==
  /\ At(t, "disconnect", "cascade")
  /\ LET f == Top(t)
     IN IF f.rooms # {}
          THEN /\ \E r \in f.rooms :
                    stack' = Push(t, [f EXCEPT !.rooms = @ \ {r}],
                                  Frame("leave_room", "start", f.user, r, None, NoMsg, None))
               /\ Continue
               /\ UNCHANGED user_rooms
          ELSE IF KeyGone(f)
                 THEN /\ Raise(t)
                      /\ UNCHANGED user_rooms
                 ELSE /\ user_rooms' = DictDel(user_rooms, f.user)
                      /\ stack' = SetTop(t, [f EXCEPT !.pc = "ret"])
                      /\ Continue
  /\ UNCHANGED <<registry, room_subscriptions, ops, fails, history>>

\* ---- leave_room ---------------------------------------------------------
\* a leave that keeps the room's key over an empty member set
LeaveSubs_KeepEmpty(u, r) ==
  IF r \notin DOMAIN room_subscriptions
    THEN room_subscriptions
    ELSE DictSet(room_subscriptions, r, room_subscriptions[r] \ {u})

\* lines 113-118: discard the member, delete the key of an empty set
LeaveSubs(u, r) ==
  IF r \notin DOMAIN room_subscriptions
    THEN room_subscriptions
    ELSE IF room_subscriptions[r] \ {u} = {}
           THEN DictDel(room_subscriptions, r)
           ELSE DictSet(room_subscriptions, r, room_subscriptions[r] \ {u})

LeaveRooms(u, r) ==
  IF u \in DOMAIN user_rooms
    THEN DictSet(user_rooms, u, user_rooms[u] \ {r})
    ELSE user_rooms

\* lines 113-130: the update of both indexes, then the user_left_room
\* broadcast
LeaveRoom_Start(t) ==
  /\ At(t, "leave_room", "start")
  /\ LET f == Top(t)
         st == Push(t, [f EXCEPT !.pc = "ret",
                                 !.removed = IF LeaveSubs(f.user, f.room) = room_subscriptions
                                               THEN "none" ELSE "one"],
                    Frame("broadcast_to_room", "start", None, f.room, None,
                          Msg("user_left_room", f.room, f.user), f.user))
     IN /\ room_subscriptions' = LeaveSubs(f.user, f.room)
        /\ user_rooms' = LeaveRooms(f.user, f.room)
        /\ stack' = IF f.room \in DOMAIN room_subscriptions
                         /\ f.room \notin DOMAIN LeaveSubs(f.user, f.room)
                      THEN DelRoomFrames(st, f.room)
                      ELSE st
  /\ Continue
  /\ UNCHANGED <<registry, ops, fails, history>>

\* ---- join_room ----------------------------------------------------------
\* a join that makes the user the room's only member
JoinSubs_Reset(u, r) == DictSet(room_subscriptions, r, {u})

\* lines 83-89: the room's entry, created when missing, with the user added
JoinSubs(u, r) ==
  DictSet(room_subscriptions, r,
          (IF r \in DOMAIN room_subscriptions THEN room_subscriptions[r] ELSE {}) \cup {u})

\* a join that leaves the reverse index as it is
JoinRooms_Skip(u, r) == user_rooms

\* lines 86-90: the reverse-index entry with the room added
JoinRooms(u, r) ==
  DictSet(user_rooms, u,
          (IF u \in DOMAIN user_rooms THEN user_rooms[u] ELSE {}) \cup {r})

\* lines 83-98: the update of both indexes, then room_joined to the user
JoinRoom_Start(t) ==
  /\ At(t, "join_room", "start")
  /\ LET f == Top(t)
     IN /\ room_subscriptions' = JoinSubs(f.user, f.room)
        /\ user_rooms' = JoinRooms(f.user, f.room)
        /\ stack' = Push(t, [f EXCEPT !.pc = "bcast"],
                         Frame("send_personal_message", "start", f.user, None, None,
                               Msg("room_joined", f.room, None), None))
        /\ history' = [history EXCEPT !.joined = @ \cup {<<f.user, f.room>>}]
  /\ Continue
  /\ UNCHANGED <<registry, ops, fails>>

\* an announcement that goes to the joiner as well
JoinRoom_Bcast_All(t) ==
  /\ At(t, "join_room", "bcast")
  /\ LET f == Top(t)
     IN stack' = Push(t, [f EXCEPT !.pc = "ret"],
                      Frame("broadcast_to_room", "start", None, f.room, None,
                            Msg("user_joined_room", f.room, f.user), None))
  /\ Continue
  /\ UNCHANGED <<registry, directory, ops, fails, history>>

\* lines 101-107: user_joined_room to the other members
JoinRoom_Bcast(t) ==
  /\ At(t, "join_room", "bcast")
  /\ LET f == Top(t)
     IN stack' = Push(t, [f EXCEPT !.pc = "ret"],
                      Frame("broadcast_to_room", "start", None, f.room, None,
                            Msg("user_joined_room", f.room, f.user), f.user))
  /\ Continue
  /\ UNCHANGED <<registry, directory, ops, fails, history>>

\* ---- connect ------------------------------------------------------------
\* lines 48-59, after accept: register, then connection_established
Connect_Register(t) ==
  /\ At(t, "connect", "register")
  /\ LET f == Top(t)
         u == f.user
         known == u \in DOMAIN active_connections
     IN /\ active_connections' =
             DictSet(active_connections, u,
                     Append(IF known THEN active_connections[u] ELSE <<>>, f.ws))
        /\ conn_order' = IF known THEN conn_order ELSE Append(conn_order, u)
        /\ stack' = Push(t, [f EXCEPT !.pc = "ret"],
                         Frame("send_personal_message", "start", u, None, None,
                               Msg("connection_established", None, u), None))
  /\ Continue
  /\ UNCHANGED <<directory, ops, fails, history>>

\* the end of connect, disconnect, join_room and leave_room: a print
Call_Ret(t) ==
  /\ running = t
  /\ stack[t] # <<>>
  /\ Top(t).fn \in {"connect", "disconnect", "join_room", "leave_room"}
  /\ Top(t).pc = "ret"
  /\ Return(t)
  /\ UNCHANGED <<registry, directory, ops, fails, history>>

\* ---- handle_websocket_message -------------------------------------------
\* the inbound frames of the runs: a join or a leave of a list room; the
\* room member of such a message is its list_id
Inbound ==
  {Msg(k, L, None) : k \in {"join_list_room", "leave_list_room"}, L \in ListIds}

\* the frames that are protocol errors: text that json.loads cannot decode,
\* JSON that is not an object, a join without its list_id, an unknown type
Malformed ==
  {Msg("undecodable", None, None), Msg("not_object", None, None),
   Msg("join_list_room", None, None), Msg("bogus", None, None)}

Reply(type, room, u) ==
  Frame("send_personal_message", "start", u, None, None, Msg(type, room, None), None)

\* the "timestamp" member of a ping frame: the member is absent, or it is
\* JSON null, or it is a value
Timestamps == {"absent", "null", "t1"}

\* a ping frame
Ping(ts) == [type |-> "ping", room |-> None, user |-> None, ts |-> ts]

Pings == {Ping(ts) : ts \in Timestamps}

\* message.get("timestamp"): None, which json.dumps writes as null, when
\* the key is absent
get_timestamp(m) == IF m.ts = "absent" THEN "null" ELSE m.ts

\* lines 103-106: the pong dict, whose "timestamp" member is always there
Pong(m, u) ==
  [Reply("pong", None, u) EXCEPT
     !.msg = [type |-> "pong", room |-> None, user |-> None, ts |-> get_timestamp(m)]]

\* the call a message's branch awaits; get_shopping_list_by_id grants or
\* denies access to the list of a join_list_room
HandlerCall(m, u, granted) ==
  CASE m.type = "join_list_room" ->
         IF granted THEN Frame("join_room", "start", u, handler_room_id(m.room),
                               None, NoMsg, None)
                    ELSE Reply("error", m.room, u)
    [] m.type = "leave_list_room" ->
         Frame("leave_room", "start", u, handler_room_id(m.room), None, NoMsg, None)
    [] m.type = "typing_indicator" ->
         Frame("broadcast_to_room", "start", None, handler_room_id(m.room), None,
               Msg("typing_indicator", m.room, u), u)
    [] m.type = "ping" -> Pong(m, u)
    [] OTHER -> Reply("error", None, u)

\* line 83: what the list collaborator answers: the list, when the user may
\* access it (TRUE), or nothing (FALSE)
get_shopping_list_by_id == BOOLEAN

\* line 76: message.get raises AttributeError on JSON that is not an object;
\* lines 81, 97, 126: a branch whose list_id is missing does nothing
Handle_Start(t) ==
  /\ At(t, "handle_websocket_message", "start")
  /\ IF Top(t).msg.type = "not_object"
       THEN Raise(t)
       ELSE IF Top(t).msg.type \in {"join_list_room", "leave_list_room", "typing_indicator"}
                /\ Top(t).msg.room = None
              THEN Return(t)
              ELSE /\ \E granted \in get_shopping_list_by_id :
                        /\ granted \/ Top(t).msg.type = "join_list_room"
                        /\ stack' = Push(t, [Top(t) EXCEPT !.pc = "ret"],
                                         HandlerCall(Top(t).msg, Top(t).user, granted))
                   /\ Continue
  /\ UNCHANGED <<registry, directory, ops, fails, history>>

\* line 83 as the class under src has it: ShoppingListService defines
\* get_list_by_id and no get_shopping_list_by_id, so the attribute lookup of
\* a join_list_room with a list_id raises AttributeError
Handle_AttributeError(t) ==
  /\ At(t, "handle_websocket_message", "start")
  /\ Top(t).msg.type = "join_list_room"
  /\ Top(t).msg.room # None
  /\ Raise(t)
  /\ UNCHANGED <<registry, directory, ops, fails, history>>

Handle_Ret(t) ==
  /\ At(t, "handle_websocket_message", "ret")
  /\ Return(t)
  /\ UNCHANGED <<registry, directory, ops, fails, history>>

\* ---- websocket_endpoint -------------------------------------------------
InFlight == Cardinality({t \in Tasks : stack[t] # <<>>})

\* an event loop in which a call holds a lock over its sends: nothing
\* starts while a call is suspended
CanStart_Locked == running = None /\ InFlight < 1

CanStart == running = None /\ InFlight < MaxInFlight

\* lines 47-50: the token resolves to a user; connect awaits accept
Authenticate(c) ==
  /\ CanStart
  /\ session[c] = "Connecting"
  /\ session' = [session EXCEPT ![c] = "Authenticated"]
  /\ stack' = [stack EXCEPT ![c] =
                 <<Frame("connect", "accept", UserOf(c), None, c, NoMsg, None)>>]
  /\ UNCHANGED <<registry, directory, running, close_code, result, ops, fails, history>>

\* a rejection that comes after the connection was registered
AuthFail_Registered(c) ==
  /\ running = None
  /\ session[c] = "Connecting"
  /\ session' = [session EXCEPT ![c] = "Closed"]
  /\ close_code' = [close_code EXCEPT ![c] = 1008]
  /\ active_connections' =
       DictSet(active_connections, UserOf(c),
               Append(IF UserOf(c) \in DOMAIN active_connections
                        THEN active_connections[UserOf(c)] ELSE <<>>, c))
  /\ UNCHANGED <<conn_order, directory, stack, running, result, ops, fails, history>>

\* lines 64-66: the token is rejected
AuthFail(c) ==
  /\ running = None
  /\ session[c] = "Connecting"
  /\ session' = [session EXCEPT ![c] = "Closed"]
  /\ close_code' = [close_code EXCEPT ![c] = 1008]
  /\ UNCHANGED <<registry, directory, stack, running, result, ops, fails, history>>

\* await websocket.accept() returns
Accepted(c) ==
  /\ Suspended(c, "accept")
  /\ stack' = SetTop(c, [Top(c) EXCEPT !.pc = "register"])
  /\ running' = c
  /\ UNCHANGED <<registry, directory, session, close_code, result, ops, fails, history>>

\* lines 55-59: receive_text returns a frame, the handler is called
Receive(c, m) ==
  /\ CanStart
  /\ session[c] = "Active"
  /\ stack[c] = <<>>
  /\ ops < MaxOps
  /\ ops' = ops + 1
  /\ stack' = [stack EXCEPT ![c] =
                 <<Frame(IF m.type = "undecodable" THEN "websocket_endpoint"
                                                   ELSE "handle_websocket_message",
                         "start", UserOf(c), None, c, m, None)>>]
  /\ running' = c
  /\ UNCHANGED <<registry, directory, session, close_code, result, fails, history>>

\* line 56: json.loads(data) raises JSONDecodeError
Decode_Fail(t) ==
  /\ At(t, "websocket_endpoint", "start")
  /\ Raise(t)
  /\ UNCHANGED <<registry, directory, ops, fails, history>>

\* lines 61-62: receive_text raises WebSocketDisconnect
TransportClose(c) ==
  /\ CanStart
  /\ session[c] = "Active"
  /\ stack[c] = <<>>
  /\ ops < MaxOps
  /\ ops' = ops + 1
  /\ session' = [session EXCEPT ![c] = "Closing"]
  /\ stack' = [stack EXCEPT ![c] =
                 <<Frame("disconnect", "start", UserOf(c), None, c, NoMsg, None)>>]
  /\ running' = c
  /\ UNCHANGED <<registry, directory, close_code, result, fails, history>>

\* ---- calls from the HTTP side -------------------------------------------
\* notify_friend_request (send_notification), notify_item_update
\* (send_item_update) and the admin broadcast of POST /ws/broadcast
BridgeCalls ==
  {Frame("send_personal_message", "start", u, None, None,
         Msg("notification", None, u), None) : u \in Users}
    \cup {Frame("broadcast_to_room", "start", None, item_update_room_id(L), None,
                Msg("item_update", L, None), None) : L \in ListIds}
    \cup {Frame("broadcast_to_all", "start", None, None, None,
                Msg("admin_broadcast", None, None), None)}

BridgeCall(b) ==
  /\ CanStart
  /\ stack[b] = <<>>
  /\ ops < MaxOps
  /\ ops' = ops + 1
  /\ \E f \in BridgeCalls : stack' = [stack EXCEPT ![b] = <<f>>]
  /\ running' = b
  /\ result' = [result EXCEPT ![b] = "running"]
  /\ UNCHANGED <<registry, directory, session, close_code, fails, history>>

\* ---- specification ------------------------------------------------------
Next ==
  \/ \E c \in Conns : Authenticate(c)
  \/ \E c \in Conns : AuthFail(c)
  \/ \E c \in Conns : Accepted(c)
  \/ \E c \in Conns, m \in Inbound \cup Malformed : Receive(c, m)
  \/ \E c \in Conns : TransportClose(c)
  \/ \E b \in Bridges : BridgeCall(b)
  \/ \E t \in Tasks : Deliver(t)
  \/ \E t \in Tasks : SendFail(t)
  \/ \E t \in Tasks : SPM_Start(t)
  \/ \E t \in Tasks : Fanout_Inner(t)
  \/ \E t \in Tasks : Fanout_Cleanup(t)
  \/ \E t \in Tasks : BTR_Start(t)
  \/ \E t \in Tasks : BTR_Outer(t)
  \/ \E t \in Tasks : BTA_Start(t)
  \/ \E t \in Tasks : BTA_Outer(t)
  \/ \E t \in Tasks : Disconnect_Start(t)
  \/ \E t \in Tasks : Disconnect_Cascade(t)
  \/ \E t \in Tasks : LeaveRoom_Start(t)
  \/ \E t \in Tasks : JoinRoom_Start(t)
  \/ \E t \in Tasks : JoinRoom_Bcast(t)
  \/ \E t \in Tasks : Connect_Register(t)
  \/ \E t \in Tasks : Call_Ret(t)
  \/ \E t \in Tasks : Handle_Start(t)
  \/ \E t \in Tasks : Handle_Ret(t)
  \/ \E t \in Tasks : Handle_AttributeError(t)
  \/ \E t \in Tasks : Decode_Fail(t)

Spec == Init /\ [][Next]_vars

\* The sessions when the clients send nothing but heartbeats: the inbound
\* frames are pings, and connections open, close and fail as before.
NextPing ==
  \/ \E c \in Conns : Authenticate(c)
  \/ \E c \in Conns : AuthFail(c)
  \/ \E c \in Conns : Accepted(c)
  \/ \E c \in Conns, m \in Pings : Receive(c, m)
  \/ \E c \in Conns : TransportClose(c)
  \/ \E t \in Tasks : Deliver(t)
  \/ \E t \in Tasks : SendFail(t)
  \/ \E t \in Tasks : SPM_Start(t)
  \/ \E t \in Tasks : Fanout_Inner(t)
  \/ \E t \in Tasks : Fanout_Cleanup(t)
  \/ \E t \in Tasks : BTR_Start(t)
  \/ \E t \in Tasks : BTR_Outer(t)
  \/ \E t \in Tasks : Disconnect_Start(t)
  \/ \E t \in Tasks : Disconnect_Cascade(t)
  \/ \E t \in Tasks : LeaveRoom_Start(t)
  \/ \E t \in Tasks : Connect_Register(t)
  \/ \E t \in Tasks : Call_Ret(t)
  \/ \E t \in Tasks : Handle_Start(t)
  \/ \E t \in Tasks : Handle_Ret(t)

SpecPing == Init /\ [][NextPing]_vars

\* The manager under teardown and fanout alone: connections open and close,
\* business logic calls the bridge, and no client sends a frame.  The event
\* loop runs a task that can run, and every accept and every send returns
\* or fails in the end.
NextTeardown ==
  \/ \E c \in Conns : Authenticate(c)
  \/ \E c \in Conns : AuthFail(c)
  \/ \E c \in Conns : Accepted(c)
  \/ \E c \in Conns : TransportClose(c)
  \/ \E b \in Bridges : BridgeCall(b)
  \/ \E t \in Tasks : Deliver(t)
  \/ \E t \in Tasks : SendFail(t)
  \/ \E t \in Tasks : SPM_Start(t)
  \/ \E t \in Tasks : Fanout_Inner(t)
  \/ \E t \in Tasks : Fanout_Cleanup(t)
  \/ \E t \in Tasks : BTR_Start(t)
  \/ \E t \in Tasks : BTR_Outer(t)
  \/ \E t \in Tasks : BTA_Start(t)
  \/ \E t \in Tasks : BTA_Outer(t)
  \/ \E t \in Tasks : Disconnect_Start(t)
  \/ \E t \in Tasks : Disconnect_Cascade(t)
  \/ \E t \in Tasks : LeaveRoom_Start(t)
  \/ \E t \in Tasks : Connect_Register(t)
  \/ \E t \in Tasks : Call_Ret(t)

SpecTeardown == Init /\ [][NextTeardown]_vars /\ WF_vars(NextTeardown)

\* the typing_indicator frames of the clients, one per list
Typing == {Msg("typing_indicator", L, None) : L \in ListIds}

\* The sessions when the clients send nothing but typing indicators.
NextTyping ==
  \/ \E c \in Conns : Authenticate(c)
  \/ \E c \in Conns : AuthFail(c)
  \/ \E c \in Conns : Accepted(c)
  \/ \E c \in Conns, m \in Typing : Receive(c, m)
  \/ \E c \in Conns : TransportClose(c)
  \/ \E t \in Tasks : Deliver(t)
  \/ \E t \in Tasks : SendFail(t)
  \/ \E t \in Tasks : SPM_Start(t)
  \/ \E t \in Tasks : Fanout_Inner(t)
  \/ \E t \in Tasks : Fanout_Cleanup(t)
  \/ \E t \in Tasks : BTR_Start(t)
  \/ \E t \in Tasks : BTR_Outer(t)
  \/ \E t \in Tasks : Disconnect_Start(t)
  \/ \E t \in Tasks : Disconnect_Cascade(t)
  \/ \E t \in Tasks : LeaveRoom_Start(t)
  \/ \E t \in Tasks : Connect_Register(t)
  \/ \E t \in Tasks : Call_Ret(t)
  \/ \E t \in Tasks : Handle_Start(t)
  \/ \E t \in Tasks : Handle_Ret(t)

SpecTyping == Init /\ [][NextTyping]_vars

\* ---- presence queries ---------------------------------------------------
is_user_online(u) ==
  u \in DOMAIN active_connections /\ Len(active_connections[u]) > 0

get_room_users(r) ==
  IF r \in DOMAIN room_subscriptions THEN room_subscriptions[r] ELSE {}

get_user_rooms(u) ==
  IF u \in DOMAIN user_rooms THEN user_rooms[u] ELSE {}

\* ---- what the claims speak of -------------------------------------------
Frames == UNION {SeqSet(stack[t]) : t \in Tasks}

\* a disconnect call has begun and has not returned
CascadeInProgress == \E f \in Frames : f.fn = "disconnect"

\* C1: in every reachable state the two indexes agree: u is in
\* room_subscriptions[r] if and only if r is in user_rooms[u].
C1_IndexesAgree ==
  \A u \in Users, r \in Rooms :
    (u \in get_room_users(r)) <=> (r \in get_user_rooms(u))

\* C2: in every reachable state in which no deregistration cascade is in
\* progress, every member of a room has a connection in the registry.
C2_NoDanglingMembership ==
  ~CascadeInProgress =>
     \A r \in DOMAIN room_subscriptions :
        \A u \in room_subscriptions[r] : u \in DOMAIN active_connections

\* C3: in every reachable state every key of room_subscriptions maps to a
\* non-empty member set.
C3_NoEmptyRoom ==
  \A r \in DOMAIN room_subscriptions : room_subscriptions[r] # {}

\* a leave_room has just removed the last member of list_1, and the room's
\* key went with it
C3_Witness ==
  /\ "list_1" \notin DOMAIN room_subscriptions
  /\ \E t \in Tasks :
       /\ At(t, "broadcast_to_room", "start")
       /\ Top(t).room = "list_1"
       /\ Top(t).msg.type = "user_left_room"

\* C4: in every reachable state every key of active_connections maps to at
\* least one connection, so is_user_online(u) holds exactly for the keys and
\* for no user without a registered connection.
C4_OnlineIffKey ==
  \A u \in Users :
    /\ u \in DOMAIN active_connections => Len(active_connections[u]) >= 1
    /\ is_user_online(u) <=> u \in DOMAIN active_connections
    /\ (\A c \in Registered : UserOf(c) # u) => ~is_user_online(u)

\* every connection of B has been deregistered, and B is offline
C4_Witness ==
  /\ "B" \notin DOMAIN active_connections
  /\ ~is_user_online("B")
  /\ \E t \in Tasks : At(t, "disconnect", "ret") /\ Top(t).user = "B"
                        /\ Top(t).removed = "last"

\* the step task t is about to take raises an exception, which no frame of
\* the task catches
AboutToRaise(t) ==
  /\ running = t
  /\ stack[t] # <<>>
  /\ \/ Top(t).fn = "broadcast_to_room" /\ Top(t).pc = "outer" /\ SetChanged(Top(t))
     \/ Top(t).fn = "broadcast_to_all" /\ Top(t).pc = "outer" /\ DictChanged(Top(t))
     \/ Top(t).fn = "disconnect" /\ Top(t).pc = "cascade" /\ KeyGone(Top(t))

\* the connections that were registered before the call of frame f began
\* and still are, other than those its sends failed on
Reachable(f) == (Registered \cap Registered0) \ f.bad

\* C5: when disconnect(conn, u) has removed u's last connection and returns,
\* u is a member of no room, has no reverse-index entry and is no key of the
\* registry (unless through a connection registered after the start), and
\* no room is left without members; when u has another connection, the call
\* leaves the memberships as they were.
C5_DisconnectPost ==
  [][\A t \in Tasks :
       /\ (At(t, "disconnect", "start")
            /\ Removed(Top(t).user, Top(t).ws) = "one")
          => directory' = directory
       /\ (At(t, "disconnect", "ret") /\ Top(t).removed = "last")
          => /\ \A c \in Registered \cap Registered0 : UserOf(c) # Top(t).user
             /\ Top(t).user \notin DOMAIN user_rooms
             /\ \A r \in DOMAIN room_subscriptions :
                  /\ Top(t).user \notin room_subscriptions[r]
                  /\ room_subscriptions[r] # {}]_vars

\* C6: a failed send during broadcast_to_room(m, r) is contained: the call
\* raises nothing, and when its loop is over every other connection of a
\* non-excluded member of r has been sent m.
C6_RoomFailureContained ==
  \A t \in Tasks :
    \A k \in 1..Len(stack[t]) :
      LET f == stack[t][k]
      IN (f.fn = "broadcast_to_room" /\ f.bad # {}) =>
           /\ ~AboutToRaise(t)
           /\ (k = Len(stack[t]) /\ running = t /\ f.pc = "outer"
                 /\ IterSet(f) \ f.visited = {})
              => \A c \in Reachable(f) :
                   (UserOf(c) \in IterSet(f) \cap f.snap /\ UserOf(c) # f.excl)
                     => c \in f.sent

\* C7: broadcast_to_all(m) attempts every connection of every registered
\* user; a failed send is contained: the call raises nothing, and when its
\* loop is over every other registered connection has been sent m.
C7_AllFailureContained ==
  \A t \in Tasks :
    \A k \in 1..Len(stack[t]) :
      LET f == stack[t][k]
      IN f.fn = "broadcast_to_all" =>
           /\ f.bad # {} => ~AboutToRaise(t)
           /\ (k = Len(stack[t]) /\ running = t /\ f.pc = "outer"
                 /\ Unvisited(f) = <<>>)
              => \A c \in Reachable(f) : c \in f.sent

\* C8: when one of u's connections fails during send_personal_message(m, u),
\* no exception reaches the caller, and when the call returns the failed
\* connection is out of the registry and every other connection of u has
\* been sent m.
C8_SelfHealing ==
  \A t \in Tasks :
    \A k \in 1..Len(stack[t]) :
      LET f == stack[t][k]
      IN (f.fn = "send_personal_message" /\ f.bad # {}) =>
           /\ ~AboutToRaise(t)
           /\ (k = Len(stack[t]) /\ running = t /\ f.pc = "cleanup" /\ f.failed = <<>>)
              => /\ f.bad \cap Registered = {}
                 /\ \A c \in Reachable(f) : UserOf(c) = f.user => c \in f.sent

\* the frame that called the frame on top of task t's stack
Caller(t) == stack[t][Len(stack[t]) - 1]

\* a disconnect called by the cleanup loop of a fanout call
CleanupDisconnect(t, pc) ==
  /\ At(t, "disconnect", pc)
  /\ Len(stack[t]) >= 2
  /\ Caller(t).fn \in FanoutFns
  /\ Caller(t).pc = "cleanup"

\* C9: a send failure is connection-scoped: when the cleanup of a failed
\* send deregisters a connection of a user who has another one, that
\* connection alone leaves the registry, and the memberships and the
\* entries of all other users stay as they were.
C9_ConnectionScoped ==
  [][\A t \in Tasks :
       (/\ CleanupDisconnect(t, "start")
        /\ Top(t).user \in DOMAIN active_connections
        /\ SeqSet(active_connections[Top(t).user]) \ {Top(t).ws} # {})
       => /\ active_connections' =
               [active_connections EXCEPT ![Top(t).user] = SeqRemove(@, Top(t).ws)]
          /\ conn_order' = conn_order
          /\ directory' = directory]_vars

\* the cleanup of a failed send has removed one connection of a user who
\* keeps another
C9_Witness ==
  \E t \in Tasks :
    /\ CleanupDisconnect(t, "ret")
    /\ Top(t).removed = "one"
    /\ Top(t).user \in DOMAIN active_connections
    /\ Top(t).ws \notin SeqSet(active_connections[Top(t).user])

\* C10: broadcast_to_room(m, r, exclude_user=u) sends m to no connection of
\* u, and when the call ends every connection of every member of r other
\* than u has been sent m or has failed; without exclude_user, of every
\* member.
C10_Exclusion ==
  \A t \in Tasks :
    \A k \in 1..Len(stack[t]) :
      LET f == stack[t][k]
      IN f.fn = "broadcast_to_room" =>
           /\ \A c \in f.sent : UserOf(c) # f.excl
           /\ (k = Len(stack[t]) /\ running = t /\ f.pc = "outer"
                 /\ (SetChanged(f) \/ IterSet(f) \ f.visited = {}))
              => \A c \in Reachable(f) :
                   (UserOf(c) \in IterSet(f) \cap f.snap /\ UserOf(c) # f.excl)
                     => c \in f.sent

\* C11: an inbound frame that is malformed or of unknown type is answered
\* with an error reply to its sender, and the session stays Active with its
\* connection registered.
C11_ProtocolErrorNonFatal ==
  [][\A c \in Conns :
       (/\ running = c
        /\ stack[c] # <<>>
        /\ Top(c).fn \in {"websocket_endpoint", "handle_websocket_message"}
        /\ Top(c).pc = "start"
        /\ Top(c).msg \in Malformed)
       => /\ session'[c] = "Active"
          /\ c \in Registered
          /\ active_connections' = active_connections
          /\ stack'[c] # <<>>
          /\ stack'[c][Len(stack'[c])] = Reply("error", None, UserOf(c))]_vars

\* C12: a registered session reaches Closed only out of the disconnect call
\* its controller made for it, one call for each session, and once it is
\* Closed its connection is no longer in the registry.
C12_ClosedDeregistered ==
  [][\A c \in Conns :
       (session[c] \in {"Active", "Closing"} /\ session'[c] = "Closed")
       => /\ session[c] = "Closing"
          /\ stack[c][1].fn = "disconnect"
          /\ \A u \in DOMAIN active_connections' :
               c \notin SeqSet(active_connections'[u])]_vars

\* C13: a connect attempt whose token is rejected goes from Connecting to
\* Closed with the policy-violation code in one step that accepts and
\* registers nothing, sends nothing, and changes no index and no presence
\* answer; the connection is never registered afterwards.
C13_AuthFailure ==
  [][\A c \in Conns :
       /\ (session[c] = "Connecting" /\ session'[c] = "Closed")
          => /\ close_code'[c] = 1008
             /\ registry' = registry
             /\ directory' = directory
             /\ stack' = stack
             /\ \A u \in Users : is_user_online(u)' = is_user_online(u)
       /\ close_code[c] = 1008
          => /\ session'[c] = "Closed"
             /\ stack'[c] = <<>>
             /\ \A u \in DOMAIN active_connections' :
                  c \notin SeqSet(active_connections'[u])]_vars

\* a2's token was rejected while the other sessions went on
C13_Witness ==
  /\ session["a2"] = "Closed"
  /\ close_code["a2"] = 1008
  /\ "a2" \notin Registered
  /\ ops > 0

\* what the operation that made bridge call b returns to its own caller: it
\* completes unless the exception of the call reached it
BusinessResult(b) ==
  IF result[b] \in {"returned", "caught"} THEN "completed"
  ELSE IF result[b] = "raised" THEN "failed"
  ELSE result[b]

\* C14: whatever a bridge call made by business logic through notify_* does,
\* also when the fanout under it raises, the business operation completes
\* as it does when the notification succeeds.
C14_BridgeErrorCaught ==
  [][\A b \in Bridges :
       (/\ stack[b] # <<>>
        /\ stack[b][1].msg.type \in {"item_update", "notification"}
        /\ stack'[b] = <<>>)
       => BusinessResult(b)' = "completed"]_vars

\* a notify_* call whose fanout raised has ended
C14_Witness ==
  \E b \in Bridges : result[b] = "caught" /\ stack[b] = <<>>

\* C15: disconnect(conn, u) for a connection that is no longer in the
\* registry raises nothing, sends nothing and leaves the registry and both
\* indexes as they were: the call goes straight to its end.
C15_DisconnectIdempotent ==
  [][\A t \in Tasks :
       (At(t, "disconnect", "start") /\ Top(t).ws \notin Registered)
       => /\ registry' = registry
          /\ directory' = directory
          /\ running' = t
          /\ Len(stack'[t]) = Len(stack[t])
          /\ stack'[t][Len(stack'[t])].fn = "disconnect"
          /\ stack'[t][Len(stack'[t])].pc = "ret"]_vars

\* a disconnect for a connection that an earlier disconnect had removed has
\* reached its end
C15_Witness ==
  \E t \in Tasks :
    /\ At(t, "disconnect", "ret")
    /\ Top(t).removed = "none"
    /\ Top(t).ws \notin Registered
    /\ Top(t).ws \in Registered0

\* task t is inside a leave_room call for a user who was no member of the
\* room when the call began
InNoopLeave(t) ==
  /\ running = t
  /\ \/ /\ At(t, "leave_room", "start")
        /\ Top(t).user \notin get_room_users(Top(t).room)
     \/ \E k \in 1..Len(stack[t]) :
          /\ stack[t][k].fn = "leave_room"
          /\ stack[t][k].pc = "ret"
          /\ stack[t][k].removed = "none"

\* C16: leave_room(u, r) for a user who is no member of r, also when r does
\* not exist, is a no-op: no step of the call changes the registry or an
\* index, and none raises.
C16_LeaveNonMemberNoop ==
  [][\A t \in Tasks :
       InNoopLeave(t)
       => /\ registry' = registry
          /\ directory' = directory
          /\ stack'[t] # <<>>]_vars

\* the memberships of the users other than u are the same in both indexes
\* before and after the step
OthersKeep(u) ==
  \A v \in Users \ {u} :
    /\ \A r \in Rooms : (v \in get_room_users(r))' = (v \in get_room_users(r))
    /\ get_user_rooms(v)' = get_user_rooms(v)

C18_JoinIdempotent ==
  [][\A t \in Tasks :
       (/\ At(t, "join_room", "start")
        /\ Top(t).user \in get_room_users(Top(t).room)
        /\ Top(t).room \in get_user_rooms(Top(t).user))
       => /\ room_subscriptions' = room_subscriptions
          /\ user_rooms' = user_rooms]_vars

\* the first operation of a run is a join of list_1, of which every user is
\* a member from the start: the repeated join has run its update and its
\* notifications, and the room has the members it had
C18_Witness ==
  \E t \in Tasks :
    /\ At(t, "join_room", "ret")
    /\ Top(t).room = "list_1"
    /\ ops = 1
    /\ get_room_users("list_1") = Users
    /\ \A u \in Users : "list_1" \in get_user_rooms(u)

\* session c is in the disconnect call its controller made on transport
\* close, and the call removed the last connection of a room member
ClosingLast(c) ==
  /\ stack[c] # <<>>
  /\ stack[c][1].fn = "disconnect"
  /\ stack[c][1].removed = "last"
  /\ stack[c][1].snap # {}

\* C19: when the only connection of a room member A closes, the cascade
\* runs to its end without raising; its user_left_room broadcasts reach no
\* connection of A and every connection of a member that is still in the
\* room and online; at the end A is in no room and offline, unless through
\* a connection registered after the start.
C19_OnlyConnectionCloses ==
  \A c \in Conns :
    ClosingLast(c) =>
      /\ ~AboutToRaise(c)
      /\ \A k \in 1..Len(stack[c]) :
           LET f == stack[c][k]
           IN (/\ f.fn = "broadcast_to_room"
               /\ f.msg.type = "user_left_room"
               /\ f.msg.user = UserOf(c))
              => /\ \A d \in f.sent : UserOf(d) # UserOf(c)
                 /\ (k = Len(stack[c]) /\ running = c /\ f.pc = "outer"
                       /\ IterSet(f) \ f.visited = {})
                    => \A d \in Reachable(f) :
                         UserOf(d) \in IterSet(f) \cap f.snap => d \in f.sent
      /\ (At(c, "disconnect", "ret") /\ Len(stack[c]) = 1)
         => /\ \A d \in Registered \cap Registered0 : UserOf(d) # UserOf(c)
            /\ \A r \in Rooms : UserOf(c) \notin get_room_users(r)
            /\ (is_user_online(UserOf(c))
                  => \E d \in Registered \ Registered0 : UserOf(d) = UserOf(c))

\* bridge task b is in the broadcast of notify_item_update
ItemUpdate(b) ==
  /\ stack[b] # <<>>
  /\ stack[b][1].fn = "broadcast_to_room"
  /\ stack[b][1].msg.type = "item_update"

\* C20: notify_item_update(data, L) broadcasts an item_update whose list_id
\* is L to the room of L.  The loop passes only to users who are members of
\* the room when it reaches them, and the message goes only to connections
\* of those users, so a user who is no member gets nothing; no connection
\* gets it twice; and when no send fails and the membership is as it was at
\* the call, the call ends normally with every registered connection of
\* every member having got it.
C20_ItemUpdateScenario ==
  [][\A b \in Bridges :
       ItemUpdate(b) =>
         LET f == stack[b][1]
         IN /\ f.msg.room \in ListIds /\ f.room = "list_" \o f.msg.room
            /\ \A u \in Users :
                 (ItemUpdate(b)' /\ u \notin f.visited
                    /\ u \in stack'[b][1].visited) => u \in IterSet(f)
            /\ \A c \in f.sent : UserOf(c) \in f.visited
            /\ (Len(stack[b]) = 1 /\ f.pc = "send")
               => f.ws \notin f.sent /\ UserOf(f.ws) \in f.visited
            /\ (f.bad = {} /\ IterSet(f) = f.snap /\ f.pc # "start")
               => /\ ~AboutToRaise(b)
                  /\ (Len(stack[b]) = 1 /\ running = b /\ f.pc = "outer"
                        /\ f.snap \subseteq f.visited)
                     => \A c \in Registered \cap Registered0 :
                          UserOf(c) \in f.snap => c \in f.sent]_vars

\* the item_update of list_1, of which A and B are members, has reached the
\* connections of both and the call is about to return
C20_Witness ==
  \E b \in Bridges :
    /\ ItemUpdate(b)
    /\ At(b, "broadcast_to_room", "outer")
    /\ Top(b).room = "list_1"
    /\ Top(b).snap = {"A", "B"}
    /\ Top(b).snap \subseteq Top(b).visited
    /\ Top(b).sent = {"a1", "b1"}
    /\ ~SetChanged(Top(b))

\* no task is inside a call
Quiescent == \A t \in Tasks : stack[t] = <<>>

\* every input of the run so far was a join that was granted, no send has
\* failed and no session has ended with an exception
OnlyJoins ==
  /\ ops = Cardinality(history.joined)
  /\ fails = 0
  /\ \A c \in Conns : close_code[c] # 1011

\* connection c has been sent the user_joined_room of room r that names u
Heard(c, r, u) == <<c, r, u>> \in history.heard

Unreachable(t) ==
  \/ At(t, "send_personal_message", "start")
       /\ Top(t).user \notin DOMAIN active_connections
  \/ At(t, "broadcast_to_room", "start") /\ get_room_users(Top(t).room) = {}

\* C22: send_personal_message to a user without a registered connection and
\* broadcast_to_room to an unknown or empty room return at once: no send is
\* begun, nothing is raised, and the registry and both room indexes stay as
\* they were.
C22_UnreachableNoop ==
  [][\A t \in Tasks :
       Unreachable(t)
       => /\ registry' = registry
          /\ directory' = directory
          /\ stack'[t] = Below(t)
          /\ Top(t).sent = {} /\ Top(t).bad = {}
          /\ close_code' = close_code
          /\ \A b \in Bridges :
               result'[b] = IF b = t /\ Len(stack[t]) = 1 THEN "returned" ELSE result[b]
          /\ \A x \in Tasks \ {t} : stack'[x] = stack[x]]_vars

\* the user_left_room broadcast of the leave that removed the last member of
\* a room, the first input of the run, found no room and has returned
C22_Witness ==
  \E t \in Tasks :
    /\ At(t, "leave_room", "ret")
    /\ Top(t).removed = "one"
    /\ Top(t).room \notin DOMAIN room_subscriptions
    /\ ops = 1
    /\ \A x \in Tasks \ {t} : stack[x] = <<>>

\* frame k of task t is the connection_established message of a connect call
Welcome(t, k) ==
  /\ k >= 2
  /\ stack[t][k].fn = "send_personal_message"
  /\ stack[t][k].msg.type = "connection_established"
  /\ stack[t][k - 1].fn = "connect"

\* C23: the connection_established message of connect(ws, u) is sent to ws
\* and to no other connection, not even to another connection of u.
C23_WelcomeToNewOnly ==
  \A t \in Tasks :
    \A k \in 1..Len(stack[t]) :
      Welcome(t, k)
      => /\ stack[t][k].sent \subseteq {stack[t][k - 1].ws}
         /\ stack[t][k].pc = "send" => stack[t][k].ws = stack[t][k - 1].ws

\* frame k of task t is the error reply to a frame that is a protocol error
ErrorReply(t, k) ==
  /\ k >= 2
  /\ stack[t][k].fn = "send_personal_message"
  /\ stack[t][k].msg.type = "error"
  /\ stack[t][k - 1].fn = "handle_websocket_message"
  /\ stack[t][k - 1].msg \in Malformed

\* C24: the error reply to an unknown or malformed frame is sent to the
\* connection the frame came from and to no other connection.
C24_ErrorToSenderOnly ==
  \A t \in Tasks :
    \A k \in 1..Len(stack[t]) :
      ErrorReply(t, k)
      => /\ stack[t][k].sent \subseteq {stack[t][k - 1].ws}
         /\ stack[t][k].pc = "send" => stack[t][k].ws = stack[t][k - 1].ws

\* C25: the handler answers a ping with a pong to the sender's user whose
\* timestamp is the ping's, unchanged, and which has no timestamp member
\* when the ping has none; it adds nothing of its own and leaves the
\* registry and both room indexes as they are.
C25_PongEcho ==
  [][\A c \in Conns, ts \in Timestamps :
       (At(c, "handle_websocket_message", "start") /\ Top(c).msg = Ping(ts))
       => /\ registry' = registry
          /\ directory' = directory
          /\ Len(stack'[c]) = Len(stack[c]) + 1
          /\ stack'[c][Len(stack'[c])].fn = "send_personal_message"
          /\ stack'[c][Len(stack'[c])].user = UserOf(c)
          /\ stack'[c][Len(stack'[c])].msg =
               [type |-> "pong", room |-> None, user |-> None, ts |-> ts]]_vars

\* the handler of task t's inbound frame has called join_room or leave_room,
\* the call is frame k, and the frame names list L
HandlerRoomCall(t, k, L) ==
  /\ k >= 2
  /\ stack[t][k].fn \in {"join_room", "leave_room"}
  /\ stack[t][k - 1].fn = "handle_websocket_message"
  /\ stack[t][k - 1].msg.room = L

\* C26: the bridge and the message handler build the same room id from a
\* list id: the room of notify_list_update and notify_item_update for list
\* L is the room join_list_room and leave_list_room of L act on, so a user
\* who joins list L becomes a member of the room the updates of L go to,
\* the broadcast of an update of L passes only to members of the room the
\* clients enter for L, and when no send fails and the membership stays as
\* it was, every registered connection of every member has been sent it.
C26_RoomIdAgreement ==
  [][/\ \A L \in ListIds :
          /\ list_update_room_id(L) = handler_room_id(L)
          /\ item_update_room_id(L) = handler_room_id(L)
     /\ \A t \in Tasks, L \in ListIds, u \in Users :
          /\ \A k \in 1..Len(stack[t]) :
               HandlerRoomCall(t, k, L)
               => stack[t][k].room = item_update_room_id(L)
          /\ (At(t, "join_room", "start") /\ HandlerRoomCall(t, Len(stack[t]), L)
                /\ Top(t).user = u)
             => u \in get_room_users(item_update_room_id(L))'
     /\ \A b \in Bridges, L \in ListIds :
          (ItemUpdate(b) /\ stack[b][1].msg.room = L)
          => LET f == stack[b][1]
             IN /\ f.room = handler_room_id(L)
                /\ \A u \in Users :
                     (ItemUpdate(b)' /\ u \notin f.visited
                        /\ u \in stack'[b][1].visited)
                     => u \in get_room_users(handler_room_id(L))
                /\ (Len(stack[b]) = 1 /\ running = b /\ f.pc = "outer"
                      /\ f.bad = {} /\ f.snap \subseteq f.visited
                      /\ get_room_users(handler_room_id(L)) = f.snap /\ ~f.sdet)
                   => \A c \in Registered \cap Registered0 :
                        UserOf(c) \in get_room_users(handler_room_id(L))
                          => c \in f.sent]_vars

\* B has entered the room of list 2 with join_list_room, and the item_update
\* of list 2 has reached B's connection
C26_Witness ==
  \E b \in Bridges :
    /\ ItemUpdate(b)
    /\ stack[b][1].msg.room = "2"
    /\ "b1" \in stack[b][1].sent
    /\ <<"B", handler_room_id("2")>> \in history.joined

\* frame k of task t is a disconnect call that has removed its user's last
\* connection and has not returned
Cascading(t, k) ==
  /\ stack[t][k].fn = "disconnect"
  /\ stack[t][k].removed = "last"

\* C27: the cascade of a user's last deregistration is ordered and atomic:
\* the user's key stays in the registry until the user has left every room,
\* and from the start of the cascade to its end no other task runs, so that
\* nobody sees the user without a key and still a member of a room, or out
\* of some of its rooms and not of the others.
C27_CascadeAtomic ==
  \A t \in Tasks :
    \A k \in 1..Len(stack[t]) :
      Cascading(t, k)
      => /\ running = t
         /\ (\E r \in Rooms : stack[t][k].user \in get_room_users(r))
            => stack[t][k].user \in DOMAIN active_connections
         /\ running # t
            => \/ stack[t][k].snap \cap get_user_rooms(stack[t][k].user) = {}
               \/ stack[t][k].snap \subseteq get_user_rooms(stack[t][k].user)

\* the loop of broadcast_to_room frame f, the running top frame of its task,
\* is at its end: the iterator has nothing left to yield, or raises
LoopEnd(f) ==
  /\ f.pc = "outer"
  /\ SetChanged(f) \/ (IterSet(f) \ f.visited) \cap f.snap = {}

\* C28: broadcast_to_room works on the membership at the start of the call:
\* it attempts no connection of a user who was no member then, a change of
\* the member set while it is suspended in a send does not make it fail,
\* and when it ends it has attempted every connection, registered
\* throughout, of every member of that snapshot other than exclude_user.
C28_Snapshot ==
  \A t \in Tasks :
    \A k \in 1..Len(stack[t]) :
      LET f == stack[t][k]
      IN (f.fn = "broadcast_to_room" /\ f.pc # "start")
         => /\ \A c \in f.sent \cup f.bad : UserOf(c) \in f.snap
            /\ (k = Len(stack[t]) /\ running = t /\ f.pc = "outer")
               => ~SetChanged(f)
            /\ (k = Len(stack[t]) /\ running = t /\ LoopEnd(f))
               => \A c \in Registered \cap Registered0 :
                    (UserOf(c) \in f.snap /\ UserOf(c) # f.excl)
                      => c \in f.sent \cup f.bad

\* the list iterator of send_personal_message frame f is exhausted
ListEnd(f) == f.pc = "inner" /\ f.i > Len(IterList(f))

\* C29: send_personal_message(m, u) attempts every connection of u that is
\* registered when its loop begins and still is when the loop ends, whatever
\* other tasks register or deregister while it is suspended in a send, and
\* it attempts no connection twice.
C29_NoConnectionSkipped ==
  \A t \in Tasks :
    \A k \in 1..Len(stack[t]) :
      LET f == stack[t][k]
      IN f.fn = "send_personal_message"
         => /\ f.pc = "send" => f.ws \notin f.sent \cup f.bad
            /\ (k = Len(stack[t]) /\ running = t /\ ListEnd(f))
               => \A c \in f.snap \cap Registered : c \in f.sent \cup f.bad

\* task t is suspended in websocket.send_text
Stalled(t) == Suspended(t, "send")

\* the steps of task x inside the manager and the handler
TaskStep(x) ==
  \/ SPM_Start(x) \/ Fanout_Inner(x) \/ Fanout_Cleanup(x)
  \/ BTR_Start(x) \/ BTR_Outer(x) \/ BTA_Start(x) \/ BTA_Outer(x)
  \/ Disconnect_Start(x) \/ Disconnect_Cascade(x) \/ LeaveRoom_Start(x)
  \/ JoinRoom_Start(x) \/ JoinRoom_Bcast(x) \/ Connect_Register(x)
  \/ Call_Ret(x) \/ Handle_Start(x) \/ Handle_Ret(x) \/ Decode_Fail(x)
  \/ Handle_AttributeError(x)

\* a task that runs is never made to wait
RunningProceeds ==
  \A x \in Tasks : (running = x /\ stack[x] # <<>>) => ENABLED TaskStep(x)

Ahead(x, c) ==
  LET f == Top(x)
      u == UserOf(c)
  IN /\ f.fn \in FanoutFns
     /\ c \in Registered
     /\ c \notin f.sent \cup f.bad
     /\ ~(f.pc = "send" /\ f.ws = c)
     /\ \/ /\ f.pc \in {"inner", "send"}
           /\ f.cur = u
           /\ \E k \in f.i..Len(IterList(f)) : IterList(f)[k] = c
        \/ /\ f.fn = "broadcast_to_room"
           /\ f.pc \in {"outer", "inner", "send", "cleanup"}
           /\ u \in IterSet(f) \ f.visited
           /\ u # f.excl
        \/ /\ f.fn = "broadcast_to_all"
           /\ f.pc \in {"outer", "inner", "send", "cleanup"}
           /\ u \in SeqSet(Unvisited(f))

\* task y has not been suspended since it started: the fanout call on top
\* of it has made no send, and no call of y came before it
Fresh(y) ==
  /\ stack[y] # <<>>
  /\ Top(y).fn \in FanoutFns
  /\ Top(y).sent \cup Top(y).bad = {}
  /\ \A k \in 1..(Len(stack[y]) - 1) :
       stack[y][k].fn \in {"handle_websocket_message", "leave_room"}

\* task y calls send_text on connection c
Issues(y, c) ==
  /\ Fanout_Inner(y)
  /\ stack'[y] # <<>>
  /\ stack'[y][Len(stack'[y])].pc = "send"
  /\ stack'[y][Len(stack'[y])].ws = c

\* C31: of two fanout calls that target one connection, the one started
\* first sends to it first: a call never sends to a connection that a call
\* started before it, and still under way, has yet to send to.
C31_PerConnectionOrder ==
  [][\A y \in Tasks, c \in Conns :
       (Fresh(y) /\ Issues(y, c))
       => \A x \in Tasks \ {y} :
            (stack[x] # <<>> /\ Top(x).pc = "send") => ~Ahead(x, c)]_vars

\* the lifecycle state of a session: the WebSocketDisconnect handler that
\* runs disconnect belongs to the teardown of Closed
Phase(st) == IF st = "Closing" THEN "Closed" ELSE st

\* the moves of the lifecycle
Lifecycle ==
  {<<"Connecting", "Authenticated">>, <<"Authenticated", "Active">>,
   <<"Active", "Closed">>, <<"Connecting", "Closed">>}

\* a frame of the receive loop's body: json.loads and the handler
Handling(f) == f.fn \in {"websocket_endpoint", "handle_websocket_message"}

\* C32: a session moves along Connecting, Authenticated, Active, Closed, or
\* from Connecting straight to Closed; once Closed it stays Closed, takes
\* no frame and does not register its connection again; a frame is handled
\* only by an Active session.
C32_SessionLifecycle ==
  [][\A c \in Conns :
       /\ Phase(session'[c]) # Phase(session[c])
          => <<Phase(session[c]), Phase(session'[c])>> \in Lifecycle
       /\ Phase(session[c]) = "Closed"
          => /\ \A k \in 1..Len(stack'[c]) : ~Handling(stack'[c][k])
             /\ c \notin Registered => c \notin Registered'
       /\ \A k \in 1..Len(stack'[c]) :
            Handling(stack'[c][k]) => session[c] = "Active" /\ session'[c] = "Active"]_vars

\* C33: a disconnect whose cascade has left every room of its copy finds
\* the user's key in the reverse index, whatever other cascade of the same
\* user ran while it was suspended: its del does not raise.
C33_OverlappingCascades ==
  \A t \in Tasks :
    \A k \in 1..Len(stack[t]) :
      (stack[t][k].fn = "disconnect" /\ stack[t][k].pc = "cascade")
      => ~KeyGone(stack[t][k])

\* frame k of task t is the user_left_room broadcast of the leave_room call
\* below it, and a send of it has reached a connection
LeftHeard(t, k) ==
  /\ k > 1
  /\ stack[t][k].fn = "broadcast_to_room"
  /\ stack[t][k].msg.type = "user_left_room"
  /\ stack[t][k].sent # {}

\* C34: a user_left_room event reaches the members of a room only when the
\* leave_room call that sends it has removed the user from the room: a
\* leave by a user who is no member sends none.
C34_LeftOnlyIfMember ==
  \A t \in Tasks :
    \A k \in 1..Len(stack[t]) :
      LeftHeard(t, k) => stack[t][k - 1].removed = "one"

\* frame f is a typing_indicator broadcast of which a send has reached a
\* connection
TypingHeard(f) ==
  /\ f.fn = "broadcast_to_room"
  /\ f.msg.type = "typing_indicator"
  /\ f.sent # {}

\* C35: a typing_indicator reaches a connection only when its sender was a
\* member of the list's room when the broadcast began: one sent by a user
\* who is no member is delivered to nobody.
C35_TypingByMemberOnly ==
  \A t \in Tasks :
    \A k \in 1..Len(stack[t]) :
      TypingHeard(stack[t][k]) => stack[t][k].msg.user \in stack[t][k].snap

\* the handler of task t is about to act on a join_list_room for list L
JoinAsked(t, L) ==
  /\ At(t, "handle_websocket_message", "start")
  /\ Top(t).msg.type = "join_list_room"
  /\ Top(t).msg.room = L

\* C36: the handler of a join_list_room for list L either calls join_room
\* for the room "list_" + L, when the list collaborator grants access, or
\* replies to the user with an error; the step itself changes no index, so
\* a denied join leaves the rooms and the reverse index as they were and
\* announces nothing.
C36_JoinGated ==
  [][\A t \in Tasks, L \in ListIds, u \in Users :
       (JoinAsked(t, L) /\ Top(t).user = u)
       => /\ directory' = directory
          /\ stack'[t] # <<>>
          /\ LET g == stack'[t][Len(stack'[t])]
             IN \/ /\ g.fn = "join_room"
                   /\ g.user = u
                   /\ g.room = "list_" \o L
                \/ /\ g.fn = "send_personal_message"
                   /\ g.user = u
                   /\ g.msg.type = "error"]_vars

\* the deepest nesting of calls in a task: a fanout call, and under it one
\* disconnect, leave_room and broadcast_to_room per connection
MaxDepth == 2 + 3 * Cardinality(Conns)

\* the disconnect calls that are under way in task t
Teardowns(t) == Cardinality({k \in 1..Len(stack[t]) : stack[t][k].fn = "disconnect"})

\* C37: every call ends: the nesting of disconnect, leave_room and
\* broadcast_to_room is never deeper than the connections allow, and from
\* some time on no call is under way in any task, so each call that was
\* started is over.
C37_Terminates ==
  /\ [](\A t \in Tasks : Len(stack[t]) <= MaxDepth /\ Teardowns(t) <= Cardinality(Conns))
  /\ <>[]Quiescent

\* a disconnect called by the cleanup of the user_left_room broadcast of
\* another disconnect's cascade
C37_Witness ==
  \E t \in Tasks : Teardowns(t) >= 2
====
